---- MODULE Spec2Model ----
(***************************************************************************)
(* YouTube_Chatbot: the video ingestion pipeline (videoProcessor.ts), the  *)
(* question answering service (chatService.ts) and the App / ChatInterface *)
(* / VideoInput handlers that drive them.                                  *)
(*                                                                         *)
(* Strings of the program are sequences of one-character strings, so that  *)
(* length, trim, split, join and the regular expressions are computed.     *)
(* Every await on the network is one step of the model: what the code does *)
(* between two such awaits (promise continuations, the React state         *)
(* setters) happens in one action.                                         *)
(***************************************************************************)
EXTENDS Integers, Sequences, FiniteSets, TLC

\* ---------------------------------------------------------------- bounds
\* video submissions in one run of the page
MaxSubmits == 2
\* questions submitted in one run of the page
MaxQuestions == 2
\* sentences in the long sample transcript (each LongSentenceLen characters)
LongSentences == 3

\* ------------------------------------------------------ program constants
VideoIdLen == 11
MinTranscriptLen == 50
DefaultChunkSize == 500
DefaultOverlap == 50
EmbeddingDim == 1536
DefaultTopK == 3
\* the relevance threshold 0.3 as a fraction
ThresholdNum == 3
ThresholdDen == 10

\* ------------------------------------------------------------ text helpers
Min(S) == CHOOSE x \in S : \A y \in S : x <= y
Max(S) == CHOOSE x \in S : \A y \in S : x >= y

RECURSIVE SortAsc(_)
SortAsc(S) == IF S = {} THEN <<>> ELSE LET m == Min(S) IN <<m>> \o SortAsc(S \ {m})

WhiteSpace == {" ", "\t", "\n"}

\* String.prototype.trim
Trim(s) ==
  LET idx == {i \in 1..Len(s) : s[i] \notin WhiteSpace}
  IN IF idx = {} THEN <<>> ELSE SubSeq(s, Min(idx), Max(idx))

\* s.split(' '): the pieces between single spaces, empty pieces included
SplitSpace(s) ==
  LET ps == SortAsc({i \in 1..Len(s) : s[i] = " "})
      bs == <<0>> \o ps \o <<Len(s) + 1>>
  IN [k \in 1..(Len(ps) + 1) |-> SubSeq(s, bs[k] + 1, bs[k + 1] - 1)]

\* words.slice(-n); slice(-0) is slice(0), the whole array
SliceLast(words, n) ==
  IF n = 0 \/ n >= Len(words) THEN words
  ELSE SubSeq(words, Len(words) - n + 1, Len(words))

\* words.join(' ')
RECURSIVE JoinSpace(_)
JoinSpace(words) ==
  IF Len(words) = 0 THEN <<>>
  ELSE IF Len(words) = 1 THEN words[1]
  ELSE words[1] \o <<" ">> \o JoinSpace(Tail(words))

IsTerminator(c) == c \in {".", "!", "?"}

\* text.split(/[.!?]+/).filter(s => s.trim().length > 0): the maximal runs
\* of non-terminator characters whose trim is not empty, in text order (the
\* empty pieces split() yields at the ends are dropped by the same filter)
SplitSentences(text) ==
  LET starts == SortAsc({i \in 1..Len(text) :
                    /\ ~IsTerminator(text[i])
                    /\ (i = 1 \/ IsTerminator(text[i - 1]))})
      endOf(i) == Min({j \in i..Len(text) : j = Len(text) \/ IsTerminator(text[j + 1])})
      pieces == [k \in 1..Len(starts) |-> SubSeq(text, starts[k], endOf(starts[k]))]
  IN SelectSeq(pieces, LAMBDA p : Len(Trim(p)) > 0)

\* ------------------------------------------------------------- chunkText
\* String(n) for a number n >= 0: its decimal digits
Digits == <<"0", "1", "2", "3", "4", "5", "6", "7", "8", "9">>
RECURSIVE Decimal(_)
Decimal(n) == IF n < 10 THEN <<Digits[n + 1]>> ELSE Decimal(n \div 10) \o <<Digits[(n % 10) + 1]>>

\* `chunk-${chunkId}`
ChunkIdOf(n) == <<"c", "h", "u", "n", "k", "-">> \o Decimal(n)

RECURSIVE chunkLoop(_, _, _, _, _)
chunkLoop(sentences, i, st, chunkSize, overlap) ==
  IF i > Len(sentences) THEN st
  ELSE
    LET sentence == Trim(sentences[i]) \o <<".">>
    IN IF Len(st.currentChunk) + Len(sentence) > chunkSize /\ Len(st.currentChunk) > 0
       THEN chunkLoop(sentences, i + 1,
              [chunks |-> Append(st.chunks,
                            [id |-> ChunkIdOf(st.chunkId), text |-> Trim(st.currentChunk)]),
               currentChunk |-> JoinSpace(SliceLast(SplitSpace(st.currentChunk), overlap))
                                  \o <<" ">> \o sentence,
               chunkId |-> st.chunkId + 1],
              chunkSize, overlap)
       ELSE chunkLoop(sentences, i + 1,
              [st EXCEPT !.currentChunk =
                 st.currentChunk \o (IF Len(st.currentChunk) > 0 THEN <<" ">> ELSE <<>>)
                                 \o sentence],
              chunkSize, overlap)

\* chunkText without the push of the last buffer
chunkTextNoFlush(text, chunkSize, overlap) ==
  chunkLoop(SplitSentences(text), 1,
            [chunks |-> <<>>, currentChunk |-> <<>>, chunkId |-> 0],
            chunkSize, overlap).chunks

\* chunkText numbering the last chunk by the count of sentences
chunkTextIdBySentence(text, chunkSize, overlap) ==
  LET st == chunkLoop(SplitSentences(text), 1,
                      [chunks |-> <<>>, currentChunk |-> <<>>, chunkId |-> 0],
                      chunkSize, overlap)
  IN IF Len(Trim(st.currentChunk)) > 0
     THEN Append(st.chunks, [id |-> ChunkIdOf(Len(SplitSentences(text)) - 1),
                             text |-> Trim(st.currentChunk)])
     ELSE st.chunks

chunkText(text, chunkSize, overlap) ==
  LET st == chunkLoop(SplitSentences(text), 1,
                      [chunks |-> <<>>, currentChunk |-> <<>>, chunkId |-> 0],
                      chunkSize, overlap)
  IN IF Len(Trim(st.currentChunk)) > 0
     THEN Append(st.chunks, [id |-> ChunkIdOf(st.chunkId), text |-> Trim(st.currentChunk)])
     ELSE st.chunks

\* ------------------------------------------------- URLs and video identifiers
IdChars == {"a","b","c","d","e","f","g","h","i","j","k","l","m","n","o","p","q","r","s","t","u","v","w","x","y","z","A","B","C","D","E","F","G","H","I","J","K","L","M","N","O","P","Q","R","S","T","U","V","W","X","Y","Z","0","1","2","3","4","5","6","7","8","9","_","-"}

WatchMarker == <<"y","o","u","t","u","b","e",".","c","o","m","/","w","a","t","c","h","?","v","=">>
ShortMarker == <<"y","o","u","t","u",".","b","e","/">>
Markers == {WatchMarker, ShortMarker}

HasAt(s, i, p) == i + Len(p) - 1 <= Len(s) /\ SubSeq(s, i, i + Len(p) - 1) = p
IdAt(s, i) == i + VideoIdLen - 1 <= Len(s) /\ \A k \in i..(i + VideoIdLen - 1) : s[k] \in IdChars

\* no match: JavaScript null (an 11-character identifier is never empty)
NoMatch == <<>>

\* url.match(/(?:youtube\.com\/watch\?v=|youtu\.be\/)([a-zA-Z0-9_-]{11})/):
\* the leftmost position where a marker is followed by 11 identifier
\* characters; the result is those 11 characters
extractVideoId(url) ==
  LET hits == {i \in 1..Len(url) :
                 \E m \in Markers : HasAt(url, i, m) /\ IdAt(url, i + Len(m))}
  IN IF hits = {} THEN NoMatch
     ELSE LET i == Min(hits)
              m == CHOOSE m \in Markers : HasAt(url, i, m) /\ IdAt(url, i + Len(m))
          IN SubSeq(url, i + Len(m), i + Len(m) + VideoIdLen - 1)

\* /^(https?:\/\/)?(www\.)?(youtube\.com\/watch\?v=|youtu\.be\/)[a-zA-Z0-9_-]{11}/
validateYouTubeUrl(url) ==
  \E scheme \in {<<>>, <<"h","t","t","p",":","/","/">>, <<"h","t","t","p","s",":","/","/">>} :
    \E www \in {<<>>, <<"w","w","w",".">>} :
      \E m \in Markers :
        LET prefix == scheme \o www \o m
        IN HasAt(url, 1, prefix) /\ IdAt(url, Len(prefix) + 1)

\* ------------------------------------------------------------ sample inputs
UrlRick == <<"h","t","t","p","s",":","/","/","w","w","w",".","y","o","u","t","u","b","e",".","c","o","m","/","w","a","t","c","h","?","v","=","d","Q","w","4","w","9","W","g","X","c","Q">>
UrlEmbedded == <<"s","e","e"," ","h","t","t","p","s",":","/","/","y","o","u","t","u",".","b","e","/","S","c","M","z","I","v","x","B","S","i","4">>
UrlNotAUrl == <<"n","o","t"," ","a"," ","u","r","l">>
UrlShortId == <<"h","t","t","p","s",":","/","/","y","o","u","t","u",".","b","e","/","d","Q","w","4","w","9","W","g","X","c">>
Urls == {UrlRick, UrlEmbedded, UrlNotAUrl, UrlShortId}

IdRick == <<"d","Q","w","4","w","9","W","g","X","c","Q">>
IdML == <<"j","N","Q","X","A","C","9","I","V","R","w">>
IdReact == <<"S","c","M","z","I","v","x","B","S","i","4">>

MockRick == <<"T","h","i","s"," ","i","s"," ","a"," ","c","l","a","s","s","i","c"," ","m","u","s","i","c"," ","v","i","d","e","o"," ","f","e","a","t","u","r","i","n","g"," ","R","i","c","k"," ","A","s","t","l","e","y"," ","p","e","r","f","o","r","m","i","n","g"," ","\"","N","e","v","e","r"," ","G","o","n","n","a"," ","G","i","v","e"," ","Y","o","u"," ","U","p","\"","."," ","T","h","e"," ","s","o","n","g"," ","b","e","c","a","m","e"," ","f","a","m","o","u","s"," ","a","s"," ","p","a","r","t"," ","o","f"," ","i","n","t","e","r","n","e","t"," ","c","u","l","t","u","r","e"," ","a","n","d"," ","\"","R","i","c","k","r","o","l","l","i","n","g","\"","."," ","T","h","e"," ","v","i","d","e","o"," ","s","h","o","w","s"," ","R","i","c","k"," ","A","s","t","l","e","y"," ","s","i","n","g","i","n","g"," ","a","n","d"," ","d","a","n","c","i","n","g"," ","i","n"," ","v","a","r","i","o","u","s"," ","s","e","t","t","i","n","g","s",".">>
MockML == <<"T","h","i","s"," ","v","i","d","e","o"," ","d","i","s","c","u","s","s","e","s"," ","t","h","e"," ","f","u","n","d","a","m","e","n","t","a","l","s"," ","o","f"," ","m","a","c","h","i","n","e"," ","l","e","a","r","n","i","n","g"," ","a","n","d"," ","a","r","t","i","f","i","c","i","a","l"," ","i","n","t","e","l","l","i","g","e","n","c","e","."," ","I","t"," ","c","o","v","e","r","s"," ","t","o","p","i","c","s"," ","l","i","k","e"," ","n","e","u","r","a","l"," ","n","e","t","w","o","r","k","s",","," ","d","e","e","p"," ","l","e","a","r","n","i","n","g"," ","a","l","g","o","r","i","t","h","m","s",","," ","a","n","d"," ","p","r","a","c","t","i","c","a","l"," ","a","p","p","l","i","c","a","t","i","o","n","s"," ","i","n"," ","v","a","r","i","o","u","s"," ","i","n","d","u","s","t","r","i","e","s","."," ","K","e","y"," ","c","o","n","c","e","p","t","s"," ","i","n","c","l","u","d","e"," ","s","u","p","e","r","v","i","s","e","d"," ","l","e","a","r","n","i","n","g",","," ","u","n","s","u","p","e","r","v","i","s","e","d"," ","l","e","a","r","n","i","n","g",","," ","a","n","d"," ","r","e","i","n","f","o","r","c","e","m","e","n","t"," ","l","e","a","r","n","i","n","g",".">>
MockReact == <<"A"," ","c","o","m","p","r","e","h","e","n","s","i","v","e"," ","t","u","t","o","r","i","a","l"," ","o","n"," ","R","e","a","c","t",".","j","s"," ","d","e","v","e","l","o","p","m","e","n","t"," ","c","o","v","e","r","i","n","g"," ","c","o","m","p","o","n","e","n","t","s",","," ","h","o","o","k","s",","," ","s","t","a","t","e"," ","m","a","n","a","g","e","m","e","n","t",","," ","a","n","d"," ","m","o","d","e","r","n"," ","R","e","a","c","t"," ","p","a","t","t","e","r","n","s","."," ","T","h","e"," ","v","i","d","e","o"," ","e","x","p","l","a","i","n","s"," ","h","o","w"," ","t","o"," ","b","u","i","l","d"," ","s","c","a","l","a","b","l","e"," ","a","p","p","l","i","c","a","t","i","o","n","s"," ","u","s","i","n","g"," ","R","e","a","c","t"," ","b","e","s","t"," ","p","r","a","c","t","i","c","e","s"," ","a","n","d"," ","i","n","c","l","u","d","e","s"," ","p","r","a","c","t","i","c","a","l"," ","e","x","a","m","p","l","e","s",".">>
MockDefault == <<"T","h","i","s"," ","v","i","d","e","o"," ","c","o","n","t","e","n","t"," ","c","o","v","e","r","s"," ","v","a","r","i","o","u","s"," ","t","o","p","i","c","s"," ","a","n","d"," ","p","r","o","v","i","d","e","s"," ","v","a","l","u","a","b","l","e"," ","i","n","f","o","r","m","a","t","i","o","n"," ","o","n"," ","t","h","e"," ","s","u","b","j","e","c","t"," ","m","a","t","t","e","r","."," ","T","h","e"," ","s","p","e","a","k","e","r"," ","d","i","s","c","u","s","s","e","s"," ","i","m","p","o","r","t","a","n","t"," ","c","o","n","c","e","p","t","s"," ","a","n","d"," ","s","h","a","r","e","s"," ","i","n","s","i","g","h","t","s"," ","b","a","s","e","d"," ","o","n"," ","t","h","e","i","r"," ","e","x","p","e","r","t","i","s","e"," ","i","n"," ","t","h","e"," ","f","i","e","l","d",".">>

\* mockTranscripts[videoId] || default
mockTranscript(videoId) ==
  IF videoId = IdRick THEN MockRick
  ELSE IF videoId = IdML THEN MockML
  ELSE IF videoId = IdReact THEN MockReact
  ELSE MockDefault

\* ---- transcripts the transcript source can return (items joined by ' ')
TextShort == <<"T","o","o"," ","s","h","o","r","t"," ","t","o"," ","u","s","e",".">>
\* 60 characters, none of them part of a sentence
TextDots == [i \in 1..60 |-> IF i % 2 = 0 THEN " " ELSE "."]
\* LongSentences sentences of 200 characters each (199 and the full stop)
LongSentence == [i \in 1..199 |-> IF i % 5 = 0 THEN " " ELSE "a"] \o <<".">>
RECURSIVE Repeat(_, _)
Repeat(s, n) == IF n = 0 THEN <<>> ELSE s \o (IF n > 1 THEN <<" ">> ELSE <<>>) \o Repeat(s, n - 1)
TextLong == Repeat(LongSentence, LongSentences)
FetchedTexts == {TextShort, TextDots, TextLong}

\* questions typed into the chat box
QuestionWhy == <<" ","w","h","y","?"," ">>
QuestionBlank == <<" "," ">>
Questions == {QuestionWhy, QuestionBlank}

\* texts the completion model can return (null or '' among them)
\* the check mark U+2705 is written "[check]", one character
CompletionYes == <<"[check]">> \o <<" ","Y","e","s",".">>
CompletionTexts == {<<>>, CompletionYes}

\* ------------------------------------------------------------- embeddings
\* A vector of `length` components of which the first two are `head` and
\* the others 0; the head is in units that cancel in the cosine.  The zero
\* vector (cosine NaN) is not among the heads.
Heads == {<<1, 0>>, <<0, 1>>}
Vector(h) == [length |-> EmbeddingDim, head |-> h]

\* Array.from({ length: 1536 }, () => Math.random() - 0.5)
mockEmbedding(h) == Vector(h)
\* response.data[0].embedding of text-embedding-3-small: 1536 components,
\* the same for the same input
providerEmbedding(text) == Vector(IF (Len(text) \div 50) % 2 = 0 THEN <<1, 0>> ELSE <<0, 1>>)

\* cosineSimilarity as the exact fraction dot / sqrt(den)
cosineSimilarity(a, b) ==
  LET dot == a.head[1] * b.head[1] + a.head[2] * b.head[2]
      normA == a.head[1] * a.head[1] + a.head[2] * a.head[2]
      normB == b.head[1] * b.head[1] + b.head[2] * b.head[2]
  IN [dot |-> dot, den |-> normA * normB]

\* s > ThresholdNum / ThresholdDen
AboveThreshold(s) ==
  s.dot > 0 /\ ThresholdDen * ThresholdDen * s.dot * s.dot > ThresholdNum * ThresholdNum * s.den

\* s1 > s2 for two similarities
SimGreater(s1, s2) ==
  IF s1.dot >= 0 /\ s2.dot < 0 THEN TRUE
  ELSE IF s1.dot < 0 /\ s2.dot >= 0 THEN FALSE
  ELSE IF s1.dot >= 0 THEN s1.dot * s1.dot * s2.den > s2.dot * s2.dot * s1.den
  ELSE s1.dot * s1.dot * s2.den < s2.dot * s2.dot * s1.den

\* Array.prototype.sort((a, b) => b.similarity - a.similarity): stable,
\* by insertion of each item after the items that are not smaller
RECURSIVE InsertDesc(_, _)
InsertDesc(sorted, item) ==
  IF Len(sorted) = 0 THEN <<item>>
  ELSE IF SimGreater(item.similarity, Head(sorted).similarity)
       THEN <<item>> \o sorted
       ELSE <<Head(sorted)>> \o InsertDesc(Tail(sorted), item)

RECURSIVE SortDesc(_, _)
SortDesc(items, k) ==
  IF k = 0 THEN <<>> ELSE InsertDesc(SortDesc(items, k - 1), items[k])

\* array.slice(0, n)
SliceFirst(s, n) == SubSeq(s, 1, IF n < Len(s) THEN n ELSE Len(s))

\* findRelevantChunks without the sort
findRelevantChunksUnsorted(queryEmbedding, vd, topK) ==
  LET similarities == [i \in 1..Len(vd.embeddings) |->
                         [chunk |-> vd.chunks[i],
                          similarity |-> cosineSimilarity(queryEmbedding, vd.embeddings[i]),
                          index |-> i - 1]]
  IN SliceFirst(similarities, topK)

findRelevantChunks(queryEmbedding, vd, topK) ==
  LET similarities == [i \in 1..Len(vd.embeddings) |->
                         [chunk |-> vd.chunks[i],
                          similarity |-> cosineSimilarity(queryEmbedding, vd.embeddings[i]),
                          index |-> i - 1]]
  IN SliceFirst(SortDesc(similarities, Len(similarities)), topK)

\* ---------------------------------------------------------- message texts
\* A text is the template it was built from and the values put into it.
Text(s) == [template |-> "text", args |-> <<s>>]
WelcomeText(title) == [template |-> "welcome", args |-> <<title>>]
DemoRelevantText(title) == [template |-> "demo-relevant", args |-> <<title>>]
DemoNotCoveredText(question, title) == [template |-> "demo-not-covered", args |-> <<question, title>>]
ApologyText == [template |-> "apology", args |-> <<>>]
UnableText == Text(<<"U","n","a","b","l","e"," ","t","o"," ","g","e","n","e","r","a","t","e"," ","r","e","s","p","o","n","s","e">>)

\* The first character of a text: of the template literal it was built
\* from, or of the string itself.  The marks U+2705, U+274C and U+1F4CB are
\* written "[check]", "[cross]" and "[clipboard]".
FirstChar(content) ==
  IF content.template \in {"welcome", "demo-relevant"} THEN "[check]"
  ELSE IF content.template \in {"demo-not-covered", "apology"} THEN "[cross]"
  ELSE IF content.template = "demo-summary" THEN "[clipboard]"
  ELSE IF Len(content.args[1]) = 0 THEN ""
  ELSE content.args[1][1]

\* demoAnswer with the test similarity >= 0.3
demoAnswerAtThreshold(question, relevantChunks, videoTitle) ==
  IF \E i \in 1..Len(relevantChunks) :
       LET s == relevantChunks[i].similarity
       IN s.dot > 0 /\ ThresholdDen * ThresholdDen * s.dot * s.dot >= ThresholdNum * ThresholdNum * s.den
  THEN DemoRelevantText(videoTitle)
  ELSE DemoNotCoveredText(question, videoTitle)

\* generateAnswer without an API key
demoAnswer(question, relevantChunks, videoTitle) ==
  IF \E i \in 1..Len(relevantChunks) : AboveThreshold(relevantChunks[i].similarity)
  THEN DemoRelevantText(videoTitle)
  ELSE DemoNotCoveredText(question, videoTitle)

\* generateAnswer with an API key, the model having returned `content`:
\* response.choices[0].message.content || 'Unable to generate response'
modelAnswer(content) == IF Len(content) = 0 THEN UnableText ELSE Text(content)

\* metadata.title of the oEmbed response for a video
TitleOf(videoId) == <<"T", ":">> \o videoId

\* ================================================================== state
VARIABLES
  apiKey,           \* import.meta.env.VITE_OPENAI_API_KEY is set
  processingState,  \* App: 'idle' | 'processing' | 'ready' | 'error'
  videoData,        \* App: the Session, or NoVideo
  messages,         \* App: the message history
  error,            \* App: the error text, or NoError
  isLoading,        \* ChatInterface: a question is being answered
  pv,               \* the latest call of processVideo
  reqs,             \* the calls of handleQuestionSubmit, in order
  submits,          \* calls of handleVideoSubmit so far
  isGeneratingSummary, \* ChatInterface: a summary is being generated
  summaries,        \* the calls of handleGenerateSummary, in order
  call              \* a direct call of one function of the services

vars == <<apiKey, processingState, videoData, messages, error, isLoading, pv, reqs, submits,
          isGeneratingSummary, summaries, call>>

\* null
NoVideo == [null |-> TRUE]
NoError == "null"

\* A ChatMessage.  `session` and `q` are not fields of the program: they
\* record the Session and the question a message comes from.
Message(type, content, session, q) ==
  [type |-> type, content |-> content, session |-> session, q |-> q]

\* what the transcript source did: nothing yet, thrown, or returned a text
\* of some length
NotFetched == [answered |-> FALSE, threw |-> FALSE, length |-> 0]
FetchOutcome(fetched) ==
  [answered |-> TRUE, threw |-> fetched.threw, length |-> Len(fetched.text)]

\* The latest call of processVideo: where it is (`pc`), its locals, the
\* external calls it has made (`calls`), how often it has invoked
\* onStateChange, what it threw, what the transcript source did, how many
\* embeddings the provider has returned and whether it failed, the chunks
\* (by position) whose embedding request is outstanding (`pending`) and
\* those an embedding was requested for, in the order of the requests
\* (`requested`).  `prior` is the App state when handleVideoSubmit was
\* entered and `no` the number of the submission.
PvNone ==
  [pc |-> "none", url |-> <<>>, videoId |-> NoMatch, title |-> <<>>,
   transcript |-> <<>>, chunks |-> <<>>, embeddings |-> <<>>,
   calls |-> {}, stateChanges |-> 0, thrown |-> NoError,
   fetched |-> NotFetched, received |-> 0, embedFailed |-> FALSE,
   pending |-> {}, requested |-> <<>>,
   prior |-> [videoData |-> NoVideo, messages |-> <<>>], no |-> 0]

\* no function is called directly
NoCall == [fn |-> "none"]

\* the page after the first render
InitApp ==
  /\ processingState = "idle"
  /\ videoData = NoVideo
  /\ messages = <<>>
  /\ error = NoError
  /\ isLoading = FALSE
  /\ pv = PvNone
  /\ reqs = <<>>
  /\ submits = 0
  /\ isGeneratingSummary = FALSE
  /\ summaries = <<>>

Init ==
  /\ apiKey \in BOOLEAN
  /\ InitApp
  /\ call = NoCall

\* ------------------------------------------------- what the page renders
VideoInputRendered == processingState = "idle"
ResetButtonRendered == videoData # NoVideo
ChatRendered == processingState = "ready" /\ videoData # NoVideo

\* ============================================================ processVideo
\* processVideoStart with onStateChange('processing') moved before the
\* identifier check
processVideoStartNotifiesFirst(url, no, prior) ==
  LET videoId == extractVideoId(url)
  IN IF videoId = NoMatch
     THEN [PvNone EXCEPT !.pc = "rejected", !.url = url, !.no = no, !.stateChanges = 1,
                         !.thrown = "Invalid YouTube URL"]
     ELSE [PvNone EXCEPT !.pc = "metadata", !.url = url, !.no = no, !.prior = prior,
                         !.videoId = videoId, !.stateChanges = 1, !.calls = {"metadata"}]

\* processVideo up to its first await: the identifier check, then
\* onStateChange('processing') and the metadata request
processVideoStart(url, no, prior) ==
  LET videoId == extractVideoId(url)
  IN IF videoId = NoMatch
     THEN [PvNone EXCEPT !.pc = "rejected", !.url = url, !.no = no,
                         !.thrown = "Invalid YouTube URL"]
     ELSE [PvNone EXCEPT !.pc = "metadata", !.url = url, !.no = no, !.prior = prior,
                         !.videoId = videoId, !.stateChanges = 1, !.calls = {"metadata"}]

\* handleVideoSubmit up to the await of processVideo; a processVideo that
\* throws at once lands in the catch block in the same step
handleVideoSubmit(url) ==
  /\ submits < MaxSubmits
  /\ submits' = submits + 1
  /\ LET p == processVideoStart(url, submits + 1,
                                [videoData |-> videoData, messages |-> messages])
     IN /\ pv' = p
        /\ messages' = <<>>
        /\ IF p.pc = "rejected"
           THEN error' = p.thrown /\ processingState' = "error"
           ELSE error' = NoError /\ processingState' = "processing"
  /\ UNCHANGED <<call, summaries, isGeneratingSummary, apiKey, videoData, isLoading, reqs>>

\* a call of processVideo that is over: its locals are gone
Finished(p, pc, msg) ==
  [PvNone EXCEPT !.pc = pc, !.thrown = msg, !.url = p.url, !.no = p.no,
                 !.calls = p.calls, !.stateChanges = p.stateChanges,
                 !.fetched = p.fetched, !.received = p.received,
                 !.embedFailed = p.embedFailed, !.requested = p.requested]

\* processVideo throws: its catch rethrows, handleVideoSubmit's catch
\* sets the error text and the 'error' state
Rejected(p, msg) ==
  /\ pv' = Finished(p, "rejected", msg)
  /\ error' = msg
  /\ processingState' = "error"
  /\ UNCHANGED <<videoData, messages, isLoading, isGeneratingSummary>>

\* welcomeMessages as setMessages(prev => [...prev, welcome])
welcomeMessagesAppended(prev, result) ==
  Append(prev, Message("assistant", WelcomeText(result.title), result.no, 0))

\* setMessages([welcome]) of handleVideoSubmit
welcomeMessages(prev, result) ==
  <<Message("assistant", WelcomeText(result.title), result.no, 0)>>

\* processVideo returns videoData; handleVideoSubmit stores it, sets 'ready'
\* and the welcome message; a new ChatInterface is mounted
Resolved(p, embeddings) ==
  LET result == [id |-> p.videoId, title |-> p.title, transcript |-> p.transcript,
                 chunks |-> p.chunks, embeddings |-> embeddings, no |-> p.no]
  IN /\ pv' = Finished(p, "resolved", NoError)
     /\ videoData' = result
     /\ processingState' = "ready"
     /\ messages' = welcomeMessages(messages, result)
     /\ isLoading' = FALSE
     /\ isGeneratingSummary' = FALSE
     /\ UNCHANGED error

\* MetadataReturns going on without a title when the response is not ok
MetadataReturnsTolerant(ok) ==
  /\ pv.pc = "metadata"
  /\ pv' = [pv EXCEPT !.title = IF ok THEN TitleOf(pv.videoId) ELSE pv.videoId,
                      !.pc = "transcript", !.calls = @ \cup {"transcript"}]
  /\ UNCHANGED <<processingState, videoData, messages, error, isLoading, isGeneratingSummary>>
  /\ UNCHANGED <<call, summaries, apiKey, reqs, submits>>

\* getVideoMetadata answers: response.ok or not
MetadataReturns(ok) ==
  /\ pv.pc = "metadata"
  /\ IF ok
     THEN /\ pv' = [pv EXCEPT !.title = TitleOf(pv.videoId), !.pc = "transcript",
                              !.calls = @ \cup {"transcript"}]
          /\ UNCHANGED <<processingState, videoData, messages, error, isLoading, isGeneratingSummary>>
     ELSE Rejected(pv, "Failed to fetch video metadata")
  /\ UNCHANGED <<call, summaries, apiKey, reqs, submits>>

\* extractTranscript: the fetched items joined, or the mock transcript when
\* the fetch throws
extractTranscript(videoId, fetched) ==
  IF fetched.threw THEN mockTranscript(videoId) ELSE fetched.text

\* generateEmbeddings without an API key
\* the sample draws of Math.random for n vectors: the two heads in turn,
\* starting with either
RandomHeads(n) ==
  {[i \in 1..n |-> IF (i + k) % 2 = 0 THEN <<1, 0>> ELSE <<0, 1>>] : k \in {0, 1}}

mockEmbeddings(chunks, hs) == [i \in 1..Len(chunks) |-> mockEmbedding(hs[i])]

\* generateEmbeddingsCatch rethrowing the provider's error
generateEmbeddingsCatchRethrows(chunks, done, hs) ==
  [ok |-> FALSE, value |-> <<>>, message |-> "OpenAI embedding error"]

\* generateEmbeddingsCatch returning the embeddings collected so far
generateEmbeddingsCatchPartial(chunks, done, hs) ==
  [ok |-> TRUE, value |-> done, message |-> NoError]

\* the catch block of generateEmbeddings; `done` is the embeddings array
\* at the time of the failure
generateEmbeddingsCatch(chunks, done, hs) ==
  [ok |-> TRUE, value |-> mockEmbeddings(chunks, hs), message |-> NoError]

\* the texts extractTranscript can return here, and chunkText(transcript)
\* of processVideo for each of them
Transcripts == {MockRick, MockML, MockReact, MockDefault} \cup FetchedTexts
chunksOfTranscript ==
  [t \in Transcripts |-> chunkText(t, DefaultChunkSize, DefaultOverlap)]

\* TranscriptReturns without the check chunks.length === 0
TranscriptReturnsNoChunkCheck(fetched) ==
  /\ pv.pc = "transcript"
  /\ LET transcript == extractTranscript(pv.videoId, fetched)
         p1 == [pv EXCEPT !.transcript = transcript, !.fetched = FetchOutcome(fetched)]
     IN IF Len(transcript) < MinTranscriptLen
        THEN Rejected(p1, "No transcript available for this video or transcript is too short")
        ELSE LET chunks == chunksOfTranscript[transcript]
                 p2 == [p1 EXCEPT !.chunks = chunks]
             IN IF ~apiKey
                THEN \E hs \in RandomHeads(Len(chunks)) :
                        Resolved(p2, mockEmbeddings(chunks, hs))
                ELSE /\ pv' = [p2 EXCEPT !.pc = "embedding", !.calls = @ \cup {"embedding"},
                                          !.pending = {1}, !.requested = <<1>>]
                     /\ UNCHANGED <<processingState, videoData, messages, error, isLoading, isGeneratingSummary>>
  /\ UNCHANGED <<call, summaries, apiKey, reqs, submits>>

\* the transcript source answers; processVideo checks the length, chunks
\* the text and enters generateEmbeddings
TranscriptReturns(fetched) ==
  /\ pv.pc = "transcript"
  /\ LET transcript == extractTranscript(pv.videoId, fetched)
         p1 == [pv EXCEPT !.transcript = transcript, !.fetched = FetchOutcome(fetched)]
     IN IF Len(transcript) < MinTranscriptLen
        THEN Rejected(p1, "No transcript available for this video or transcript is too short")
        ELSE LET chunks == chunksOfTranscript[transcript]
                 p2 == [p1 EXCEPT !.chunks = chunks]
             IN IF Len(chunks) = 0
                THEN Rejected(p2, "Failed to process video transcript")
                ELSE IF ~apiKey
                THEN \E hs \in RandomHeads(Len(chunks)) :
                        Resolved(p2, mockEmbeddings(chunks, hs))
                ELSE /\ pv' = [p2 EXCEPT !.pc = "embedding", !.calls = @ \cup {"embedding"},
                                          !.pending = {1}, !.requested = <<1>>]
                     /\ UNCHANGED <<processingState, videoData, messages, error, isLoading, isGeneratingSummary>>
  /\ UNCHANGED <<call, summaries, apiKey, reqs, submits>>

\* EmbeddingReturns with embeddings.unshift(...) for embeddings.push(...)
EmbeddingReturnsUnshift ==
  /\ pv.pc = "embedding"
  /\ \E i \in pv.pending :
       pv' = [pv EXCEPT !.embeddings = <<providerEmbedding(pv.chunks[i].text)>> \o @,
                        !.pending = @ \ {i}, !.received = @ + 1, !.pc = "delay"]
  /\ UNCHANGED <<call, summaries, isGeneratingSummary, apiKey, processingState, videoData, messages, error, isLoading, reqs, submits>>

\* openai.embeddings.create answers for the chunk of the request; the
\* 100 ms delay starts
EmbeddingReturns ==
  /\ pv.pc = "embedding"
  /\ \E i \in pv.pending :
       pv' = [pv EXCEPT !.embeddings = Append(@, providerEmbedding(pv.chunks[i].text)),
                        !.pending = @ \ {i}, !.received = @ + 1, !.pc = "delay"]
  /\ UNCHANGED <<call, summaries, isGeneratingSummary, apiKey, processingState, videoData, messages, error, isLoading, reqs, submits>>

\* openai.embeddings.create (or the import of the client) throws
EmbeddingFails(hs) ==
  /\ pv.pc = "embedding"
  /\ LET r == generateEmbeddingsCatch(pv.chunks, pv.embeddings, hs)
         p == [pv EXCEPT !.embedFailed = TRUE, !.pending = {}]
     IN IF r.ok THEN Resolved(p, r.value) ELSE Rejected(p, r.message)
  /\ UNCHANGED <<call, summaries, apiKey, reqs, submits>>

\* the delay is over: the next request, or the end of the loop
EmbedDelayElapsed ==
  /\ pv.pc = "delay"
  /\ IF Len(pv.embeddings) < Len(pv.chunks)
     THEN /\ pv' = [pv EXCEPT !.pc = "embedding", !.pending = @ \cup {Len(pv.requested) + 1},
                              !.requested = Append(@, Len(pv.requested) + 1)]
          /\ UNCHANGED <<processingState, videoData, messages, error, isLoading, isGeneratingSummary>>
     ELSE Resolved(pv, pv.embeddings)
  /\ UNCHANGED <<call, summaries, apiKey, reqs, submits>>

\* ===================================================================== App
\* handleReset without setVideoData(null)
handleResetKeepsVideo ==
  /\ processingState' = "idle"
  /\ videoData' = videoData
  /\ messages' = <<>>
  /\ error' = NoError

handleReset ==
  /\ processingState' = "idle"
  /\ videoData' = NoVideo
  /\ messages' = <<>>
  /\ error' = NoError

\* the "New Video" button; the ChatInterface is unmounted
ResetClicked ==
  /\ ResetButtonRendered
  /\ handleReset
  /\ isLoading' = FALSE
  /\ isGeneratingSummary' = FALSE
  /\ UNCHANGED <<call, summaries, apiKey, pv, reqs, submits>>

\* VideoInput.handleSubmit
VideoInputSubmit(url) ==
  /\ VideoInputRendered
  /\ Len(Trim(url)) > 0
  /\ validateYouTubeUrl(url)
  /\ handleVideoSubmit(Trim(url))

\* handleVideoSubmit called with a URL VideoInput has not validated
DirectVideoSubmit(url) ==
  /\ processingState = "idle"
  /\ handleVideoSubmit(url)

\* ============================================================ askQuestion
\* the catch block of generateQueryEmbedding
generateQueryEmbeddingCatch(h) ==
  [ok |-> TRUE, value |-> mockEmbedding(h)]

\* generateAnswerSettle degrading to a substitute text on failure
generateAnswerSettleDegrades(ok, content) ==
  IF ok THEN [status |-> "resolved", value |-> modelAnswer(content)]
  ELSE [status |-> "resolved", value |-> UnableText]

\* generateAnswer with an API key, once the completion request is over
generateAnswerSettle(ok, content) ==
  IF ok THEN [status |-> "resolved", value |-> modelAnswer(content)]
  ELSE [status |-> "rejected", value |-> Text(<<"F","a","i","l","e","d"," ","t","o"," ","g","e","n","e","r","a","t","e"," ","a","n","s","w","e","r","."," ","P","l","e","a","s","e"," ","t","r","y"," ","a","g","a","i","n",".">>)]

\* onAskRejected as setMessages([errorMessage])
onAskRejectedReplaces(prev, session, q) ==
  <<Message("assistant", ApologyText, session, q)>>

\* the catch block of handleQuestionSubmit
onAskRejected(prev, session, q) ==
  Append(prev, Message("assistant", ApologyText, session, q))

\* the try block of handleQuestionSubmit after the await
onAskResolved(prev, answer, session, q) ==
  Append(prev, Message("assistant", answer, session, q))

NoVector == [length |-> 0, head |-> <<0, 0>>]

\* A call of handleQuestionSubmit: where it is (`pc`), the question, the
\* videoData of the render it was created in, the query embedding of
\* askQuestion, and whether the embedding provider failed.
NewRequest(q, vd) ==
  [pc |-> "embedding", question |-> q, videoData |-> vd, session |-> vd.no,
   queryEmbedding |-> NoVector,
   embedFailed |-> FALSE]

\* relevantChunks of askQuestion, once the query embedding is there
relevantChunksOf(req) ==
  findRelevantChunks(req.queryEmbedding, req.videoData, DefaultTopK)

\* a call that is over: its locals are gone
Done == [NewRequest(<<>>, [no |-> 0]) EXCEPT !.pc = "done", !.videoData = NoVideo]

\* Settle without the finally block of ChatInterface.handleSubmit
SettleKeepsLoading(n, req, result) ==
  /\ reqs' = [reqs EXCEPT ![n] = Done]
  /\ messages' = IF result.status = "resolved"
                 THEN onAskResolved(messages, result.value, req.session, n)
                 ELSE onAskRejected(messages, req.session, n)
  /\ UNCHANGED <<call, summaries, isGeneratingSummary, apiKey, processingState, videoData, error, pv, submits, isLoading>>

\* askQuestion of question n settles with `result`: handleQuestionSubmit
\* appends the reply, then the finally block of ChatInterface.handleSubmit
\* clears isLoading of the ChatInterface that asked, if still mounted
Settle(n, req, result) ==
  /\ reqs' = [reqs EXCEPT ![n] = Done]
  /\ messages' = IF result.status = "resolved"
                 THEN onAskResolved(messages, result.value, req.session, n)
                 ELSE onAskRejected(messages, req.session, n)
  /\ isLoading' = IF ChatRendered /\ videoData.no = req.session THEN FALSE ELSE isLoading
  /\ UNCHANGED <<call, summaries, isGeneratingSummary, apiKey, processingState, videoData, error, pv, submits>>

\* ChatInterface.handleSubmit and handleQuestionSubmit up to the first
\* request; without an API key askQuestion settles in the same step
ChatSubmit(question, h) ==
  /\ ChatRendered
  /\ Len(Trim(question)) > 0
  /\ ~isLoading
  /\ Len(reqs) < MaxQuestions
  /\ LET q == Trim(question)
         n == Len(reqs) + 1
         userMessage == Message("user", Text(q), videoData.no, n)
         req == NewRequest(q, videoData)
     IN IF ~apiKey
        THEN LET qe == mockEmbedding(h)
                 rel == findRelevantChunks(qe, videoData, DefaultTopK)
                 answer == demoAnswer(q, rel, videoData.title)
             IN /\ reqs' = Append(reqs, Done)
                /\ messages' = onAskResolved(Append(messages, userMessage), answer, videoData.no, n)
                /\ isLoading' = FALSE
        ELSE /\ h = CHOOSE x \in Heads : TRUE
             /\ reqs' = Append(reqs, req)
             /\ messages' = Append(messages, userMessage)
             /\ isLoading' = TRUE
  /\ UNCHANGED <<call, summaries, isGeneratingSummary, apiKey, processingState, videoData, error, pv, submits>>

\* the query embedding request answers (ok) or throws: ranking, then the
\* completion request
QueryEmbeddingReturns(n, ok, h) ==
  /\ n \in 1..Len(reqs)
  /\ reqs[n].pc = "embedding"
  /\ LET req == reqs[n]
         r == IF ok THEN [ok |-> TRUE, value |-> providerEmbedding(req.question)]
              ELSE generateQueryEmbeddingCatch(h)
     IN IF r.ok
        THEN /\ reqs' = [reqs EXCEPT ![n] =
                  [req EXCEPT !.pc = "completion", !.queryEmbedding = r.value,
                              !.embedFailed = ~ok]]
             /\ UNCHANGED <<call, summaries, isGeneratingSummary, apiKey, processingState, videoData, messages, error, isLoading, pv, submits>>
        ELSE Settle(n, [req EXCEPT !.embedFailed = TRUE],
                    [status |-> "rejected", value |-> Text(<<>>)])

\* the completion request answers with `content`
CompletionReturns(n, content) ==
  /\ n \in 1..Len(reqs)
  /\ reqs[n].pc = "completion"
  /\ Settle(n, reqs[n], generateAnswerSettle(TRUE, content))

\* the completion request throws
CompletionFails(n) ==
  /\ n \in 1..Len(reqs)
  /\ reqs[n].pc = "completion"
  /\ Settle(n, reqs[n], generateAnswerSettle(FALSE, <<>>))

\* =================================================== generateVideoSummary
\* clicks on the Summary button in one run of the page
MaxSummaries == 2

DemoSummaryText(title) == [template |-> "demo-summary", args |-> <<title>>]
UnableSummaryText == Text(<<"U","n","a","b","l","e"," ","t","o"," ","g","e","n","e","r","a","t","e"," ","s","u","m","m","a","r","y">>)
SummaryUnavailableText == Text(<<"U","n","a","b","l","e"," ","t","o"," ","g","e","n","e","r","a","t","e"," ","v","i","d","e","o"," ","s","u","m","m","a","r","y"," ","a","t"," ","t","h","i","s"," ","t","i","m","e",".">>)

\* generateVideoSummarySettle with a catch block that rethrows
generateVideoSummarySettleRethrows(ok, content) ==
  IF ok
  THEN [status |-> "resolved", value |-> IF Len(content) = 0 THEN UnableSummaryText ELSE Text(content)]
  ELSE [status |-> "rejected", value |-> SummaryUnavailableText]

\* generateVideoSummary with an API key, once the completion request is
\* over: content || 'Unable to generate summary', or the text of the catch
generateVideoSummarySettle(ok, content) ==
  IF ok
  THEN [status |-> "resolved", value |-> IF Len(content) = 0 THEN UnableSummaryText ELSE Text(content)]
  ELSE [status |-> "resolved", value |-> SummaryUnavailableText]

\* A call of handleGenerateSummary: where it is (`pc`), the Session of the
\* ChatInterface it was clicked in, what the provider did, the text
\* generateVideoSummary returned, whether it threw, and whether the text
\* was written to the console.
NewSummary(vd) ==
  [pc |-> "pending", session |-> vd.no, title |-> vd.title, provider |-> "pending",
   returned |-> Text(<<>>), threw |-> FALSE, logged |-> FALSE]

\* the await of handleGenerateSummary is over: the try block builds
\* summaryMessage and writes the summary to the console, the catch block
\* writes the error; the finally block clears isGeneratingSummary of the
\* ChatInterface that was clicked, if still mounted
SummarySettle(n, s, provider, result) ==
  LET d == [s EXCEPT !.pc = "done", !.provider = provider,
                     !.returned = IF result.status = "resolved" THEN result.value ELSE Text(<<>>),
                     !.threw = (result.status = "rejected"),
                     !.logged = (result.status = "resolved")]
  IN /\ summaries' = IF n > Len(summaries) THEN Append(summaries, d)
                     ELSE [summaries EXCEPT ![n] = d]
     /\ isGeneratingSummary' =
          IF ChatRendered /\ videoData.no = s.session THEN FALSE ELSE isGeneratingSummary
     /\ UNCHANGED <<call, apiKey, processingState, videoData, messages, error, isLoading, pv, reqs, submits>>

\* the Summary button of ChatInterface: handleGenerateSummary up to the
\* completion request; without an API key generateVideoSummary returns in
\* the same step
SummaryClicked ==
  /\ ChatRendered
  /\ ~isGeneratingSummary
  /\ Len(summaries) < MaxSummaries
  /\ IF ~apiKey
     THEN SummarySettle(Len(summaries) + 1, NewSummary(videoData), "no-key",
                        [status |-> "resolved", value |-> DemoSummaryText(videoData.title)])
     ELSE /\ summaries' = Append(summaries, NewSummary(videoData))
          /\ isGeneratingSummary' = TRUE
          /\ UNCHANGED <<call, apiKey, processingState, videoData, messages, error, isLoading, pv, reqs, submits>>

\* the completion request of summary n answers with `content`
SummaryReturns(n, content) ==
  /\ n \in 1..Len(summaries)
  /\ summaries[n].pc = "pending"
  /\ SummarySettle(n, summaries[n], "succeeded", generateVideoSummarySettle(TRUE, content))

\* the completion request of summary n (or the import of the client) throws
SummaryFails(n) ==
  /\ n \in 1..Len(summaries)
  /\ summaries[n].pc = "pending"
  /\ SummarySettle(n, summaries[n], "failed", generateVideoSummarySettle(FALSE, <<>>))

\* ========================================================== specifications
Fetched ==
  {[threw |-> TRUE, text |-> <<>>]} \cup {[threw |-> FALSE, text |-> t] : t \in FetchedTexts}

UserSubmitsVideo == \E url \in Urls : VideoInputSubmit(url)
CallerSubmitsVideo == \E url \in Urls : DirectVideoSubmit(url)
MetadataAnswers == \E ok \in BOOLEAN : MetadataReturns(ok)
TranscriptAnswers == \E f \in Fetched : TranscriptReturns(f)
EmbeddingThrows == \E hs \in RandomHeads(Len(pv.chunks)) : EmbeddingFails(hs)
UserAsks == \E question \in Questions, h \in Heads : ChatSubmit(question, h)
QueryEmbeddingAnswers == \E n \in 1..MaxQuestions, ok \in BOOLEAN, h \in Heads : QueryEmbeddingReturns(n, ok, h)
CompletionAnswers == \E n \in 1..MaxQuestions, content \in CompletionTexts : CompletionReturns(n, content)
CompletionThrows == \E n \in 1..MaxQuestions : CompletionFails(n)

Next ==
  \/ UserSubmitsVideo
  \/ MetadataAnswers
  \/ TranscriptAnswers
  \/ EmbeddingReturns
  \/ EmbeddingThrows
  \/ EmbedDelayElapsed
  \/ ResetClicked
  \/ UserAsks
  \/ QueryEmbeddingAnswers
  \/ CompletionAnswers
  \/ CompletionThrows

Spec == Init /\ [][Next]_vars

\* the page when every request of askQuestion is answered or fails in the
\* end: the promise of question n settles
QuestionSettles(n) ==
  \/ \E ok \in BOOLEAN, h \in Heads : QueryEmbeddingReturns(n, ok, h)
  \/ \E content \in CompletionTexts : CompletionReturns(n, content)
  \/ CompletionFails(n)

\* the page with an API key, one video URL and a transcript source that
\* throws, so that every Session has the mock transcript
InitLive ==
  /\ apiKey = TRUE
  /\ InitApp
  /\ call = NoCall

UserSubmitsRick == VideoInputSubmit(UrlRick)
TranscriptThrows == TranscriptReturns([threw |-> TRUE, text |-> <<>>])

NextLive ==
  \/ UserSubmitsRick
  \/ MetadataAnswers
  \/ TranscriptThrows
  \/ EmbeddingReturns
  \/ EmbeddingThrows
  \/ EmbedDelayElapsed
  \/ ResetClicked
  \/ UserAsks
  \/ QueryEmbeddingAnswers
  \/ CompletionAnswers
  \/ CompletionThrows

SpecLive ==
  InitLive /\ [][NextLive]_vars /\ \A n \in 1..MaxQuestions : WF_vars(QuestionSettles(n))

\* the variables of the page
appVars == <<apiKey, processingState, videoData, messages, error, isLoading, pv, reqs, submits,
             isGeneratingSummary, summaries>>

\* the ingestion pipeline with handleVideoSubmit called directly, with
\* any URL
NextApi ==
  \/ CallerSubmitsVideo
  \/ MetadataAnswers
  \/ TranscriptAnswers
  \/ EmbeddingReturns
  \/ EmbeddingThrows
  \/ EmbedDelayElapsed
  \/ ResetClicked

SpecApi == Init /\ [][NextApi]_vars

\* the page with the Summary button and without questions
UserClicksSummary == SummaryClicked
SummaryAnswers == \E n \in 1..MaxSummaries, content \in CompletionTexts : SummaryReturns(n, content)
SummaryThrows == \E n \in 1..MaxSummaries : SummaryFails(n)

NextSummary ==
  \/ UserSubmitsVideo
  \/ MetadataAnswers
  \/ TranscriptAnswers
  \/ EmbeddingReturns
  \/ EmbeddingThrows
  \/ EmbedDelayElapsed
  \/ ResetClicked
  \/ UserClicksSummary
  \/ SummaryAnswers
  \/ SummaryThrows

SpecSummary == Init /\ [][NextSummary]_vars

\* ------------------------------------ findRelevantChunks called directly
\* chunks of a Session ranked in one call
MaxRankChunks == 4

\* components of the query and chunk vectors: equal, orthogonal, opposite
\* and oblique directions, so that similarities tie, differ and are negative
RankHeads == {<<1, 0>>, <<0, 1>>, <<1, 1>>, <<-1, 0>>}

\* a Session of n chunks with the given embeddings
RankSession(embeddings) ==
  [id |-> IdRick, title |-> TitleOf(IdRick), transcript |-> <<>>,
   chunks |-> [i \in 1..Len(embeddings) |-> [id |-> ChunkIdOf(i - 1), text |-> <<"t">> \o Decimal(i - 1)]],
   embeddings |-> embeddings, no |-> 1]

RankSessions ==
  {RankSession(e) : e \in UNION {[1..n -> {Vector(h) : h \in RankHeads}] : n \in 1..MaxRankChunks}}

RankCalls ==
  {[fn |-> "findRelevantChunks", queryEmbedding |-> Vector(q), videoData |-> s, topK |-> k,
    returned |-> FALSE, result |-> <<>>] :
     q \in RankHeads, s \in RankSessions, k \in 0..(MaxRankChunks + 1)}

InitRank ==
  /\ apiKey = FALSE
  /\ InitApp
  /\ call \in RankCalls

FindRelevantChunksCall ==
  /\ call.fn = "findRelevantChunks"
  /\ ~call.returned
  /\ call' = [call EXCEPT !.returned = TRUE,
                          !.result = findRelevantChunks(call.queryEmbedding, call.videoData, call.topK)]
  /\ UNCHANGED appVars

NextRank == FindRelevantChunksCall

SpecRank == InitRank /\ [][NextRank]_vars

\* ------------------------- generateAnswer called directly, no API key
\* entries of relevantChunks in one call
MaxRanked == 3

\* similarities dot / sqrt(den): 0.3 exactly, 0.316.., 0.242.., 1, 0 and -1
DemoSims ==
  {[dot |-> 3, den |-> 100], [dot |-> 1, den |-> 10], [dot |-> 1, den |-> 17],
   [dot |-> 1, den |-> 1], [dot |-> 0, den |-> 1], [dot |-> -1, den |-> 1]}

DemoRanked ==
  UNION {[1..n -> {[chunk |-> [id |-> ChunkIdOf(0), text |-> <<"t">>], similarity |-> s, index |-> 0] :
                     s \in DemoSims}] : n \in 0..MaxRanked}

DemoCalls ==
  {[fn |-> "generateAnswer", question |-> Trim(QuestionWhy), relevantChunks |-> r,
    videoTitle |-> TitleOf(IdRick), returned |-> FALSE, result |-> Text(<<>>)] : r \in DemoRanked}

InitDemo ==
  /\ apiKey = FALSE
  /\ InitApp
  /\ call \in DemoCalls

GenerateAnswerCall ==
  /\ call.fn = "generateAnswer"
  /\ ~call.returned
  /\ ~apiKey
  /\ call' = [call EXCEPT !.returned = TRUE,
                          !.result = demoAnswer(call.question, call.relevantChunks, call.videoTitle)]
  /\ UNCHANGED appVars

NextDemo == GenerateAnswerCall

SpecDemo == InitDemo /\ [][NextDemo]_vars

\* --------------------------------------------- chunkText called directly
\* pieces a text is put together from
MaxPieces == 5

\* sentences of one and two words, a word without terminator, a space and
\* a run of terminators
ChunkPieces == {<<"a", ".">>, <<"b", " ", "c", ".">>, <<"d">>, <<" ">>, <<"!", "?">>}

RECURSIVE Flatten(_)
Flatten(ps) == IF Len(ps) = 0 THEN <<>> ELSE Head(ps) \o Flatten(Tail(ps))

\* twelve sentences, for chunk numbers of two digits
TextTwelve == [i \in 1..24 |-> IF i % 2 = 1 THEN "a" ELSE "."]

ChunkTexts ==
  {Flatten(ps) : ps \in UNION {[1..n -> ChunkPieces] : n \in 0..MaxPieces}} \cup {TextTwelve}

\* a sentence of 20 words (100 characters) followed by one of 90 words
\* (450 characters): the second does not fit into the buffer of the first
TextUneven ==
  [i \in 1..99 |-> IF i % 5 = 0 THEN " " ELSE "b"] \o <<".", " ">>
    \o [i \in 1..449 |-> IF i % 5 = 0 THEN " " ELSE "c"] \o <<".">>

\* chunk sizes and overlaps small enough for these texts to be split, and
\* the transcripts of processVideo with its own parameters
ChunkCalls ==
  {[fn |-> "chunkText", text |-> t, chunkSize |-> l, overlap |-> o,
    returned |-> FALSE, result |-> <<>>] : t \in ChunkTexts, l \in {4, 6}, o \in {0, 1, 2}}
  \cup
  {[fn |-> "chunkText", text |-> t, chunkSize |-> DefaultChunkSize, overlap |-> DefaultOverlap,
    returned |-> FALSE, result |-> <<>>] : t \in Transcripts \cup {TextUneven}}

InitChunk ==
  /\ apiKey = FALSE
  /\ InitApp
  /\ call \in ChunkCalls

ChunkTextCall ==
  /\ call.fn = "chunkText"
  /\ ~call.returned
  /\ call' = [call EXCEPT !.returned = TRUE,
                          !.result = chunkText(call.text, call.chunkSize, call.overlap)]
  /\ UNCHANGED appVars

NextChunk == ChunkTextCall

SpecChunk == InitChunk /\ [][NextChunk]_vars

\* ================================================================== claims
InFlight(n) == n \in 1..Len(reqs) /\ reqs[n].pc \in {"embedding", "completion"}
SessionLive(no) == videoData # NoVideo /\ videoData.no = no

\* C1: if the transcript source throws, or returns a text shorter than 50
\* characters, processVideo fails and no Session is returned or stored.
C1_UnusableTranscriptIsFatal ==
  (pv.fetched.answered /\ (pv.fetched.threw \/ pv.fetched.length < MinTranscriptLen))
    => (pv.pc = "rejected" /\ ~SessionLive(pv.no))

\* C2: every assistant message in the history belongs to the current
\* Session: no reply to a question of a Session that has been reset or
\* replaced is ever in the history.
C2_NoStaleReply ==
  \A i \in 1..Len(messages) :
    messages[i].type = "assistant" => SessionLive(messages[i].session)

\* C3: a reset leaves videoData null, the history empty, the error cleared
\* and the state 'idle'; and when a video submission succeeds, the history
\* is exactly the one welcome message for the new video.
C3_ResetThenCleanSlate ==
  [][ /\ (videoData # NoVideo /\ videoData' = NoVideo)
         => (messages' = <<>> /\ error' = NoError /\ processingState' = "idle")
      /\ (pv.pc # "resolved" /\ pv'.pc = "resolved")
         => /\ SessionLive(pv.no)'
            /\ videoData'.title = TitleOf(videoData'.id)
            /\ messages' = <<Message("assistant", WelcomeText(videoData'.title), pv'.no, 0)>>
    ]_vars

\* a second submission has succeeded after a reset, a question of the first
\* Session is still being answered, and the history is the welcome message
\* alone
C3_Witness ==
  /\ pv.pc = "resolved" /\ pv.no = 2 /\ SessionLive(2)
  /\ \E n \in 1..Len(reqs) : InFlight(n) /\ reqs[n].session = 1
  /\ messages = <<Message("assistant", WelcomeText(videoData.title), 2, 0)>>

\* C4: in every error state a reset or a new video submission is offered
\* to the user.
C4_ErrorStateHasWayOut ==
  processingState = "error" => (ResetButtonRendered \/ VideoInputRendered)

\* C5: when processVideo fails inside handleVideoSubmit, videoData and the
\* message history are what they were before the submission.
C5_FailedSubmitKeepsSession ==
  [][ (pv' # pv /\ pv'.pc = "rejected")
        => LET prior == IF submits' # submits
                        THEN [videoData |-> videoData, messages |-> messages]
                        ELSE pv.prior
           IN videoData' = prior.videoData /\ messages' = prior.messages
    ]_vars

\* C6: when askQuestion fails for question n, videoData and
\* processingState are unchanged and exactly one apology is appended to the
\* history, all earlier messages kept; if the Session of the question is
\* still the current one, the user message of n is among them and the chat
\* accepts the next question.
C6_FailedQuestionKeepsSession ==
  [][ \A n \in 1..Len(reqs) :
        CompletionFails(n)
          => /\ videoData' = videoData
             /\ processingState' = processingState
             /\ error' = error
             /\ messages' = Append(messages, Message("assistant", ApologyText, reqs[n].session, n))
             /\ SessionLive(reqs[n].session)
                  => /\ \E i \in 1..Len(messages) :
                          messages[i] = Message("user", Text(reqs[n].question), reqs[n].session, n)
                     /\ ChatRendered'
                     /\ ~isLoading'
    ]_vars

\* question n failed, the next question m of the same Session was answered:
\* welcome, question n, apology, question m, answer
C6_Witness ==
  /\ Len(messages) = 5
  /\ videoData # NoVideo
  /\ \E n, m \in 1..Len(reqs) :
       /\ n < m
       /\ ~InFlight(n) /\ ~InFlight(m)
       /\ messages[2].session = videoData.no
       /\ messages[4].session = videoData.no
       /\ messages[2].type = "user" /\ messages[2].q = n
       /\ messages[3] = Message("assistant", ApologyText, videoData.no, n)
       /\ messages[4].type = "user" /\ messages[4].q = m
       /\ messages[5].type = "assistant" /\ messages[5].q = m
       /\ messages[5].content # ApologyText

\* C7: processVideo called with a URL without an 11-character identifier
\* throws 'Invalid YouTube URL' having made no external call and without
\* invoking onStateChange.
C7_InvalidUrlNoExternalCall ==
  (pv.pc # "none" /\ extractVideoId(pv.url) = NoMatch)
    => /\ pv.pc = "rejected"
       /\ pv.thrown = "Invalid YouTube URL"
       /\ pv.calls = {}
       /\ pv.stateChanges = 0
       /\ ~pv.fetched.answered
       /\ pv.received = 0

\* processVideo has been called with an identifier of 10 characters
C7_Witness ==
  pv.pc = "rejected" /\ pv.url = UrlShortId /\ pv.calls = {}

\* C8: with an API key, when the completion request of question n fails,
\* askQuestion rejects: the await of handleQuestionSubmit throws into its
\* catch block, whose apology is the one message appended, and no text
\* returned by askQuestion is.
C8_CompletionFailureRejects ==
  [][ \A n \in 1..Len(reqs) :
        CompletionFails(n)
          => /\ apiKey
             /\ Len(messages') = Len(messages) + 1
             /\ messages'[Len(messages')].type = "assistant"
             /\ messages'[Len(messages')].q = n
             /\ messages'[Len(messages')].content = ApologyText
             /\ \A i \in 1..Len(messages) : messages'[i] = messages[i]
    ]_vars

\* with an API key, a question of the current Session got the apology
C8_Witness ==
  /\ apiKey /\ videoData # NoVideo
  /\ \E i \in 1..Len(messages) :
       /\ messages[i].content = ApologyText
       /\ messages[i].session = videoData.no

\* C9: a failure of the embedding provider is never fatal: after one
\* during ingestion processVideo has returned a Session whose vectors have
\* 1536 components; after one for a query askQuestion has gone on to the
\* ranking and the completion request with a vector of 1536 components.
C9_EmbeddingFailureNeverFatal ==
  /\ pv.embedFailed
       => /\ pv.pc = "resolved"
          /\ SessionLive(pv.no)
               => \A i \in 1..Len(videoData.embeddings) :
                     videoData.embeddings[i].length = EmbeddingDim
  /\ \A n \in 1..Len(reqs) :
       reqs[n].embedFailed
         => /\ reqs[n].pc = "completion"
            /\ reqs[n].queryEmbedding.length = EmbeddingDim
            /\ Len(relevantChunksOf(reqs[n])) > 0

\* the provider failed during the ingestion of the current Session and for
\* a query of it, whose completion request is now pending
C9_Witness ==
  /\ pv.embedFailed /\ SessionLive(pv.no)
  /\ \E n \in 1..Len(reqs) :
       reqs[n].embedFailed /\ reqs[n].session = pv.no /\ reqs[n].pc = "completion"

\* C10: every Session has as many embeddings as chunks.
C10_EmbeddingsMatchChunks ==
  videoData # NoVideo => Len(videoData.embeddings) = Len(videoData.chunks)

\* the current Session has several chunks and the provider failed after it
\* had embedded some of them
C10_Witness ==
  /\ pv.embedFailed /\ pv.received >= 1 /\ SessionLive(pv.no)
  /\ Len(videoData.chunks) >= 2

\* C11: findRelevantChunks(query, session, K) returns min(K, n) of the n
\* chunks, each at most once with its own similarity, ordered by
\* non-increasing similarity with equal similarities in chunk order, and
\* every chunk left out ranks after every chunk returned; for K >= n all n
\* chunks are returned.
C11_RankingIsTopKStable ==
  (call.fn = "findRelevantChunks" /\ call.returned)
    => LET r == call.result
           vd == call.videoData
           n == Len(vd.chunks)
           sim(i) == cosineSimilarity(call.queryEmbedding, vd.embeddings[i])
           Before(i, j) == \/ SimGreater(sim(i), sim(j))
                           \/ (~SimGreater(sim(j), sim(i)) /\ i < j)
           at(p) == r[p].index + 1
       IN /\ Len(r) = IF call.topK < n THEN call.topK ELSE n
          /\ \A p \in 1..Len(r) :
               /\ at(p) \in 1..n
               /\ r[p].chunk = vd.chunks[at(p)]
               /\ r[p].similarity = sim(at(p))
          /\ \A p, q \in 1..Len(r) : p < q => Before(at(p), at(q))
          /\ \A j \in 1..n :
               (\A p \in 1..Len(r) : at(p) # j) => \A p \in 1..Len(r) : Before(at(p), j)

\* three of four chunks were returned, the first two with equal similarity
\* and in chunk order, the third with a smaller one, and the first chunk of
\* the Session is not the first returned
C11_Witness ==
  /\ call.fn = "findRelevantChunks" /\ call.returned
  /\ Len(call.videoData.chunks) = 4 /\ call.topK = 3 /\ Len(call.result) = 3
  /\ call.result[1].similarity = call.result[2].similarity
  /\ call.result[1].index < call.result[2].index
  /\ SimGreater(call.result[2].similarity, call.result[3].similarity)
  /\ call.result[1].index > call.result[3].index

\* C12: without an API key generateAnswer returns a text beginning with the
\* check mark if some ranked chunk has a similarity strictly greater than
\* 3/10, and otherwise (all at or below 3/10, or no chunk) a text beginning
\* with the cross.
C12_DemoMarkerFollowsThreshold ==
  (call.fn = "generateAnswer" /\ call.returned /\ ~apiKey)
    => LET r == call.relevantChunks
           above == \E i \in 1..Len(r) :
                      /\ r[i].similarity.dot > 0
                      /\ 100 * r[i].similarity.dot * r[i].similarity.dot > 9 * r[i].similarity.den
       IN FirstChar(call.result) = IF above THEN "[check]" ELSE "[cross]"

\* the best of several ranked chunks has similarity 3/10 exactly, and the
\* answer begins with the cross
C12_Witness ==
  /\ call.fn = "generateAnswer" /\ call.returned /\ ~apiKey
  /\ Len(call.relevantChunks) >= 2
  /\ \E i \in 1..Len(call.relevantChunks) :
       call.relevantChunks[i].similarity = [dot |-> 3, den |-> 100]
  /\ \A i \in 1..Len(call.relevantChunks) :
       call.relevantChunks[i].similarity \in {[dot |-> 3, den |-> 100], [dot |-> 1, den |-> 17]}
  /\ FirstChar(call.result) = "[cross]"

\* C13: when the transcript has at least 50 characters and chunkText
\* returns no chunk for it, processVideo throws, no embedding request is
\* made and no Session is stored: videoData is unchanged and the state is
\* 'error'.
C13_ZeroChunksIsFatal ==
  [][ \A f \in Fetched :
        (/\ TranscriptReturns(f)
         /\ Len(extractTranscript(pv.videoId, f)) >= MinTranscriptLen
         /\ Len(chunkText(extractTranscript(pv.videoId, f), DefaultChunkSize, DefaultOverlap)) = 0)
          => /\ pv'.pc = "rejected"
             /\ pv'.thrown = "Failed to process video transcript"
             /\ "embedding" \notin pv'.calls
             /\ pv'.received = 0 /\ ~pv'.embedFailed
             /\ videoData' = videoData
             /\ processingState' = "error"
    ]_vars

\* the transcript source returned 50 characters or more and processVideo
\* threw at the chunk count
C13_Witness ==
  /\ pv.pc = "rejected"
  /\ pv.thrown = "Failed to process video transcript"
  /\ pv.fetched.answered /\ ~pv.fetched.threw
  /\ pv.fetched.length >= MinTranscriptLen
  /\ ~SessionLive(pv.no)

\* C14: when the metadata request fails, processVideo throws having made
\* the metadata request only: the transcript source is not called and no
\* embedding is requested; and the transcript source is never called
\* before the metadata request.
C14_MetadataFailureIsFatal ==
  [][ /\ MetadataReturns(FALSE)
          => /\ pv'.pc = "rejected"
             /\ pv'.thrown = "Failed to fetch video metadata"
             /\ pv'.calls = {"metadata"}
             /\ ~pv'.fetched.answered
             /\ pv'.received = 0 /\ ~pv'.embedFailed
             /\ videoData' = videoData
             /\ processingState' = "error"
      /\ ("transcript" \in pv'.calls \/ "embedding" \in pv'.calls) => "metadata" \in pv.calls
    ]_vars

\* processVideo threw at the metadata request of a valid video URL
C14_Witness ==
  /\ pv.pc = "rejected"
  /\ pv.thrown = "Failed to fetch video metadata"
  /\ extractVideoId(pv.url) # NoMatch
  /\ pv.calls = {"metadata"}

\* C15: with an API key, when the completion request of question n returns
\* `content`, the text askQuestion returns, which handleQuestionSubmit
\* appends as the assistant message, is `content` itself, the empty string
\* included.
C15_AnswerIsModelTextVerbatim ==
  [][ \A n \in 1..Len(reqs) : \A content \in CompletionTexts :
        CompletionReturns(n, content)
          => /\ Len(messages') = Len(messages) + 1
             /\ messages'[Len(messages')].content = Text(content)
    ]_vars

\* C16: generateVideoSummary never throws: whatever the provider did (no
\* API key, the completion request succeeded, it failed), the call of
\* handleGenerateSummary ends in its try block with a summary text.
C16_SummaryNeverFails ==
  \A n \in 1..Len(summaries) :
    /\ ~summaries[n].threw
    /\ summaries[n].pc = "done"
         => /\ summaries[n].logged
            /\ summaries[n].provider \in {"no-key", "succeeded", "failed"}
            /\ summaries[n].provider = "no-key"
                 => summaries[n].returned = DemoSummaryText(summaries[n].title)
            /\ summaries[n].provider = "failed"
                 => summaries[n].returned = SummaryUnavailableText
            /\ summaries[n].provider = "succeeded"
                 => /\ summaries[n].returned.template = "text"
                    /\ Len(summaries[n].returned.args[1]) > 0

\* the completion request of a summary failed, and the summary of the next
\* Session succeeded
C16_Witness ==
  /\ Len(summaries) = 2
  /\ summaries[1].pc = "done" /\ summaries[1].provider = "failed"
  /\ summaries[1].returned = SummaryUnavailableText
  /\ summaries[2].pc = "done" /\ summaries[2].provider = "succeeded"
  /\ summaries[2].session # summaries[1].session

\* C17: once the summary requested in the chat has been generated, it is
\* in the message history of its Session as an assistant message.
C17_SummaryIsDisplayed ==
  \A n \in 1..Len(summaries) :
    (summaries[n].pc = "done" /\ ~summaries[n].threw /\ SessionLive(summaries[n].session))
      => \E i \in 1..Len(messages) :
           /\ messages[i].type = "assistant"
           /\ messages[i].content = summaries[n].returned

\* the sentences of a text as the claims define them: the pieces between
\* runs of terminators that are not blank, trimmed and suffixed with '.'
SentenceUnits(text) ==
  LET pieces == SplitSentences(text)
  IN [k \in 1..Len(pieces) |-> Trim(pieces[k]) \o <<".">>]

IsSuffix(s, t) == Len(s) <= Len(t) /\ SubSeq(t, Len(t) - Len(s) + 1, Len(t)) = s

\* C18: a chunk built from an empty buffer by accumulating two or more
\* sentences (the first chunk, when it is not the first sentence alone) is
\* at most chunkSize characters long.
C18_AccumulatedChunkWithinSize ==
  (call.fn = "chunkText" /\ call.returned /\ Len(call.result) >= 1)
    => (call.result[1].text # SentenceUnits(call.text)[1]
          => Len(call.result[1].text) <= call.chunkSize)

\* C19: with S the sentences of the text, the chunks cut S into as many
\* consecutive non-empty runs as there are chunks: the first chunk is its
\* run joined by spaces; every later chunk is a non-empty seed, taken from
\* the end of the chunk before, a space, and its run; so every sentence is
\* newly added to exactly one chunk and the runs in chunk order give S.
C19_ChunksPartitionSentences ==
  (call.fn = "chunkText" /\ call.returned)
    => LET S == SentenceUnits(call.text)
           r == call.result
           m == Len(S)
           n == Len(r)
       IN IF m = 0 THEN n = 0
          ELSE /\ n \in 1..m
               /\ \E C \in SUBSET (1..(m - 1)) :
                    /\ Cardinality(C) = n - 1
                    /\ LET cut == <<0>> \o SortAsc(C \cup {m})
                       IN \A i \in 1..n :
                            LET run == JoinSpace(SubSeq(S, cut[i] + 1, cut[i + 1]))
                                text == r[i].text
                            IN IF i = 1 THEN text = run
                               ELSE /\ Len(text) > Len(run) + 1
                                    /\ IsSuffix(<<" ">> \o run, text)
                                    /\ IsSuffix(SubSeq(text, 1, Len(text) - Len(run) - 1),
                                                r[i - 1].text)

\* five sentences in four chunks with an overlap of one word: the first
\* chunk has two sentences, the others a seed and one sentence
C19_Witness ==
  /\ call.fn = "chunkText" /\ call.returned
  /\ call.overlap = 1
  /\ Len(SentenceUnits(call.text)) = 5
  /\ Len(call.result) = 4
  /\ call.result[1].text # SentenceUnits(call.text)[1]

\* C20: the chunks returned by chunkText have the ids 'chunk-0',
\* 'chunk-1', ... in list order, pairwise distinct.
C20_ChunkIdsSequential ==
  (call.fn = "chunkText" /\ call.returned)
    => /\ \A i \in 1..Len(call.result) :
            call.result[i].id = <<"c", "h", "u", "n", "k", "-">> \o Decimal(i - 1)
       /\ \A i, j \in 1..Len(call.result) :
            i # j => call.result[i].id # call.result[j].id

\* more than ten chunks: the eleventh is 'chunk-10'
C20_Witness ==
  /\ call.fn = "chunkText" /\ call.returned
  /\ Len(call.result) >= 11
  /\ call.result[11].id = <<"c", "h", "u", "n", "k", "-", "1", "0">>
  /\ call.result[1].id = <<"c", "h", "u", "n", "k", "-", "0">>

\* C21: with an API key, at most one embedding request of processVideo is
\* outstanding at any time, the requests are made in chunk order, every
\* embedding received so far is the provider's response for the chunk at
\* its position, and when none failed the Session has the provider's
\* response for chunks[i] as embeddings[i], for every i.
C21_EmbeddingRequestsSequential ==
  /\ Cardinality(pv.pending) <= 1
  /\ pv.requested = [i \in 1..Len(pv.requested) |-> i]
  /\ pv.pending \subseteq {Len(pv.requested)}
  /\ pv.pending # {} => pv.received = Len(pv.requested) - 1
  /\ \A i \in 1..Len(pv.embeddings) :
       pv.embeddings[i] = providerEmbedding(pv.chunks[i].text)
  /\ (apiKey /\ pv.pc = "resolved" /\ ~pv.embedFailed /\ SessionLive(pv.no))
       => /\ Len(pv.requested) = Len(videoData.chunks)
          /\ Len(videoData.embeddings) = Len(videoData.chunks)
          /\ \A i \in 1..Len(videoData.chunks) :
               videoData.embeddings[i] = providerEmbedding(videoData.chunks[i].text)

\* with an API key a Session of several chunks was built without a
\* failure, and the provider's responses for its first two chunks differ
C21_Witness ==
  /\ apiKey /\ pv.pc = "resolved" /\ ~pv.embedFailed /\ SessionLive(pv.no)
  /\ Len(videoData.chunks) >= 2
  /\ pv.received = Len(videoData.chunks)
  /\ videoData.embeddings[1] # videoData.embeddings[2]
IsPrefix(s, t) == Len(s) <= Len(t) /\ SubSeq(t, 1, Len(s)) = s

\* C22: with the default chunk size and overlap, no chunk returned by
\* chunkText begins with the entire text of the chunk before it: the words
\* carried over from a closed chunk are a proper suffix of that chunk.
C22_OverlapSeedIsProperSuffix ==
  (call.fn = "chunkText" /\ call.returned
     /\ call.chunkSize = DefaultChunkSize /\ call.overlap = DefaultOverlap)
    => \A i \in 2..Len(call.result) :
         ~IsPrefix(call.result[i - 1].text \o <<" ">>, call.result[i].text)

\* C23: videoData is not null exactly when processingState is 'ready', so
\* the chat is rendered exactly when there is a Session, and every call of
\* handleQuestionSubmit that is under way, and every user message, was
\* made with a Session.
C23_SessionIffReady ==
  /\ (videoData # NoVideo) <=> (processingState = "ready")
  /\ ChatRendered <=> (videoData # NoVideo)
  /\ \A n \in 1..Len(reqs) :
       reqs[n].pc # "done" => (reqs[n].videoData # NoVideo /\ reqs[n].session \in 1..submits)
  /\ \A i \in 1..Len(messages) :
       messages[i].type = "user" => messages[i].session \in 1..submits

\* a second Session after a reset, with a question of the first still
\* under way
C23_Witness ==
  /\ processingState = "ready"
  /\ videoData # NoVideo
  /\ videoData.no = 2
  /\ \E n \in 1..Len(reqs) : reqs[n].pc # "done" /\ reqs[n].session = 1

\* assistant messages in a history that reply to question n
Replies(ms, n) ==
  Cardinality({i \in 1..Len(ms) : ms[i].type = "assistant" /\ ms[i].q = n})

\* question n, accepted before or in this step, is over after it
Settles(n) ==
  /\ n \in 1..Len(reqs')
  /\ reqs'[n].pc = "done"
  /\ (n > Len(reqs) \/ reqs[n].pc # "done")

\* C24: when every request is answered or fails in the end, every accepted
\* question is over in the end; the step that ends it appends one
\* assistant message for it, the answer or the apology, no other step adds
\* one; and isLoading, once set, is cleared again.
C24_AcceptedQuestionIsAnswered ==
  /\ [][\A n \in 1..MaxQuestions :
          IF Settles(n)
          THEN /\ Len(messages') >= 1
               /\ messages'[Len(messages')].type = "assistant"
               /\ messages'[Len(messages')].q = n
               /\ SubSeq(messages', 1, Len(messages') - 1) =
                    (IF n > Len(reqs) THEN Append(messages, messages'[Len(messages') - 1])
                     ELSE messages)
               /\ Replies(messages', n) = 1
          ELSE Replies(messages', n) <= Replies(messages, n)]_vars
  /\ \A n \in 1..MaxQuestions : InFlight(n) ~> (n \in 1..Len(reqs) /\ reqs[n].pc = "done")
  /\ isLoading ~> ~isLoading

\* two questions, the first of a Session since reset and answered after
\* the second was asked in the next Session; both are over
C24_Witness ==
  /\ apiKey
  /\ Len(reqs) = 2
  /\ reqs[1].pc = "done" /\ reqs[2].pc = "done"
  /\ videoData # NoVideo /\ videoData.no = 2
  /\ Replies(messages, 1) = 1
  /\ Replies(messages, 2) = 1
  /\ \E i \in 1..Len(messages) : messages[i].q = 1 /\ messages[i].session = 1
  /\ ~isLoading

\* the welcome message of the Session, then user and assistant messages
\* in turn, every user message a trimmed question that is not empty
WelcomeThenAlternating(ms) ==
  /\ Len(ms) >= 1
  /\ ms[1].type = "assistant"
  /\ ms[1].content = WelcomeText(videoData.title)
  /\ \A i \in 2..Len(ms) :
       /\ ms[i].type = (IF i % 2 = 0 THEN "user" ELSE "assistant")
       /\ ms[i].type = "user" =>
            \E s \in {Trim(q) : q \in Questions} : Len(s) > 0 /\ ms[i].content = Text(s)

\* C25: while a Session is active, the history is its welcome message
\* followed by user and assistant messages in turn, ending with a user
\* message exactly while a question is being answered; a question that is
\* blank, or submitted while another is being answered, adds nothing.
C25_HistoryAlternates ==
  ChatRendered =>
    /\ WelcomeThenAlternating(messages)
    /\ (Len(messages) % 2 = 0) <=> isLoading

\* the same for the histories that hold no reply to a question of an
\* earlier Session
HistoryAlternatesWithoutStaleReply ==
  (\A i \in 1..Len(messages) : SessionLive(messages[i].session)) => C25_HistoryAlternates

====
